---------------------------- MODULE Spec2Model ----------------------------
(***************************************************************************)
(* State-machine model of the group activity planner (src/app): the       *)
(* planning sessions, their participants and plan versions as the handlers *)
(* of core_planner.py, preference_collector.py, communication_handler.py, *)
(* plan_generator.py and main.py read and write them.                     *)
(*                                                                         *)
(* Strings the code inspects (responses, contacts) are sequences of       *)
(* one-character strings, so that strip(), lower() and the "@" test are   *)
(* computed, not assumed.  A Python exception ends a handler at the call  *)
(* that raises it: the writes made before it stay, the rest never runs.   *)
(* The persistence layer (database.py) is not part of src/; it is modelled *)
(* as the plain keyed store of spec.md sections 2, 3 and 6.               *)
(***************************************************************************)
EXTENDS Naturals, Integers, Sequences, FiniteSets, Bags, TLC

\* ------------------------------------------------------------------ bounds
\* Planning sessions created.
MaxSessions == 2
\* Participant rows over all sessions.
MaxParticipants == 2
\* Recorded responses over all participants.
MaxResponses == 6
\* Recorded responses of a participant who is the only one stored.
MaxAnswers == 11
\* Plan versions over all sessions.
MaxPlans == 2
\* Participant feedback rows over all plans.
MaxFeedbacks == 2
\* Background tasks of POST /plans/generate not yet finished.
MaxTasks == 2

\* ----------------------------------------------------------------- strings
NoneVal == "None"

UpperChars == <<"A","B","C","D","E","F","G","H","I","J","K","L","M",
                "N","O","P","Q","R","S","T","U","V","W","X","Y","Z">>
LowerChars == <<"a","b","c","d","e","f","g","h","i","j","k","l","m",
                "n","o","p","q","r","s","t","u","v","w","x","y","z">>
Whitespace == {" ", "\t", "\n"}

\* str.lower() on one character
LowerChar(c) ==
    IF \E i \in 1..Len(UpperChars) : UpperChars[i] = c
    THEN LowerChars[CHOOSE i \in 1..Len(UpperChars) : UpperChars[i] = c]
    ELSE c

\* str.lower()
Lower(s) == [i \in 1..Len(s) |-> LowerChar(s[i])]

RECURSIVE LStrip(_)
LStrip(s) == IF s # <<>> /\ Head(s) \in Whitespace THEN LStrip(Tail(s)) ELSE s

RECURSIVE RStrip(_)
RStrip(s) ==
    IF s # <<>> /\ s[Len(s)] \in Whitespace
    THEN RStrip(SubSeq(s, 1, Len(s) - 1))
    ELSE s

\* str.strip()
Strip(s) == RStrip(LStrip(s))

\* response.strip().lower()
Normalize(s) == Lower(Strip(s))

\* "@" in contact
HasAt(contact) == \E i \in 1..Len(contact) : contact[i] = "@"

\* sub in s
Contains(s, sub) ==
    \E i \in 1..(Len(s) + 1) :
        i + Len(sub) - 1 <= Len(s) /\ SubSeq(s, i, i + Len(sub) - 1) = sub

\* ------------------------------------------------------------------ inputs
EmailContact == <<"a", "@", "b">>
PhoneContact == <<"5", "5", "5">>

\* create requests: the organizer's contact and the participants' contacts
CreateRequests ==
    { [organizer_contact |-> EmailContact, participants |-> <<>>],
      [organizer_contact |-> PhoneContact,
       participants |-> <<EmailContact, PhoneContact>>] }

\* create requests as the registry gets them: those above, one for a single
\* participant and one whose second participant has an empty contact string
RegistryRequests ==
    CreateRequests
      \cup { [organizer_contact |-> PhoneContact, participants |-> <<EmailContact>>],
              [organizer_contact |-> EmailContact,
               participants |-> <<PhoneContact, <<>>>>] }

\* answers to "how would you like to be contacted"
MethodInputs ==
    { <<"1">>, <<" ", "E", "m", "a", "i", "l">>, <<"c", "a", "l", "l">>, <<"?">> }

\* the answers the method mapping is checked on: every key of the mapping,
\* bare or with blanks and capitals around it, and answers that are no key
MethodAnswers ==
    MethodInputs
      \cup { <<"t","e","x","t">>, <<"S","M","S"," ">>, <<"t","x","t">>,
              <<"2">>, <<"e","-","m","a","i","l">>, <<"M","a","i","l">>,
              <<"3">>, <<"p","h","o","n","e">>, <<"\t","V","o","i","c","e","\n">>,
              <<>>, <<"e"," ","m","a","i","l">>, <<"4">> }

\* answers to "continue with more questions?"
ContinuationInputs ==
    { <<"Y", "E", "S", " ">>, <<"n", "o">>, <<"o", "k", "!">> }

\* decision requests: an approval without feedback (feedback: str = None),
\* a rejection with feedback
Decisions ==
    { [approved |-> TRUE, feedback |-> NoneVal],
      [approved |-> FALSE, feedback |-> "time"] }

\* datetime.now() as plan_generator reads it: day of month, weekday
\* (Monday = 0), days of the month
Dates ==
    { [day |-> 1, weekday |-> 6, monthdays |-> 30],
      [day |-> 30, weekday |-> 0, monthdays |-> 30] }

\* an Optional[str] argument: None, or a string
None == [some |-> FALSE, text |-> <<>>]
Some(text) == [some |-> TRUE, text |-> text]

\* bool(x) of an Optional[str]: None and "" are false
Truthy(x) == x.some /\ x.text # <<>>

\* feedback requests of a participant (feedback: str = None): an acceptance
\* without feedback, a rejection with a text, a rejection with an empty text
FeedbackInputs ==
    { [accepted |-> TRUE, feedback |-> None],
      [accepted |-> FALSE, feedback |-> Some(<<"T", "i", "m", "e">>)],
      [accepted |-> FALSE, feedback |-> Some(<<>>)] }

\* the feedback a revision is asked with; None is a call without a text
RevisionInputs ==
    { Some(<<"T", "i", "m", "e">>), Some(<<"n", "o">>), None }

VARIABLES
    sessions,      \* session id -> session row
    participants,  \* participant id -> participant row
    plans,         \* plan id -> plan version row
    feedbacks,     \* the participant feedback rows, a bag: a table has no order
    tasks,         \* the background tasks not yet finished, a bag
    last           \* the handler invocation just completed and its outcome

vars == <<sessions, participants, plans, feedbacks, tasks, last>>

Sids == 1..Len(sessions)
Pids == 1..Len(participants)
PlanIds == 1..Len(plans)

\* ------------------------------------------------- the store (database.py)
\* db.get_participants(session_id): the session's participant ids, in the
\* order they were added
get_participants(parts, sid) ==
    SelectSeq([i \in 1..Len(parts) |-> i], LAMBDA i : parts[i].session = sid)

\* no question row stored yet
NoQuestion == -1

\* db.add_participant(session_id, name, contact): a new row, nothing
\* collected yet, no preferred method
add_participant(parts, sid, contact) ==
    Append(parts, [session |-> sid, contact |-> contact, method |-> NoneVal,
                   complete |-> FALSE, awaiting |-> FALSE,
                   responses |-> 0, question |-> NoQuestion])

is_preference_collection_complete(parts, pid) == parts[pid].complete

get_preferred_comm_method(parts, pid) == parts[pid].method

get_participant_contact(parts, pid) == parts[pid].contact

set_preferred_comm_method(parts, pid, method) ==
    [parts EXCEPT ![pid].method = method]

\* db.store_preference_response: appends one question/response pair
store_preference_response(parts, pid) ==
    [parts EXCEPT ![pid].responses = @ + 1]

\* db.get_question_count: the number of recorded responses
get_question_count(parts, pid) == parts[pid].responses

\* db.get_participant_responses: the recorded pairs (their number)
get_participant_responses(parts, pid) == parts[pid].responses

set_awaiting_continuation(parts, pid, flag) ==
    [parts EXCEPT ![pid].awaiting = flag]

mark_preferences_complete(parts, pid) ==
    [parts EXCEPT ![pid].complete = TRUE]

\* db.store_question(participant_id, question): a new question row for the
\* participant; src never reads question rows back, the row kept is the
\* latest one
store_question(parts, pid, question) ==
    [parts EXCEPT ![pid].question = question]

\* the version numbers of a session's plan versions
Versions(pls, sid) ==
    { pls[i].version : i \in { j \in 1..Len(pls) : pls[j].session = sid } }

MaxVersion(pls, sid) ==
    IF Versions(pls, sid) = {} THEN 0
    ELSE CHOOSE v \in Versions(pls, sid) : \A w \in Versions(pls, sid) : w <= v

\* db.store_plan(session_id, plan): appends a plan version numbered one
\* above the session's maximum, pending the organizer's decision
store_plan(pls, sid) ==
    Append(pls, [session |-> sid, version |-> MaxVersion(pls, sid) + 1,
                 status |-> "pending", feedback |-> NoneVal])

\* db.update_plan_status(plan_id, status, feedback): a keyed put
update_plan_status(pls, plan, status, feedback) ==
    [pls EXCEPT ![plan].status = status, ![plan].feedback = feedback]

\* db.get_latest_plan(session_id): the id of the highest-numbered version,
\* 0 when the session has none
get_latest_plan(pls, sid) ==
    IF Versions(pls, sid) = {} THEN 0
    ELSE CHOOSE i \in 1..Len(pls) :
             pls[i].session = sid /\ pls[i].version = MaxVersion(pls, sid)

\* db.get_latest_approved_plan_id(session_id): the id of the session's
\* highest-numbered version with status approved, 0 (None) when it has none
get_latest_approved_plan_id(pls, sid) ==
    LET approved == { i \in 1..Len(pls) :
                        pls[i].session = sid /\ pls[i].status = "approved" }
    IN  IF approved = {} THEN 0
        ELSE CHOOSE i \in approved : \A j \in approved : pls[j].version <= pls[i].version

\* the distinct feedback rows of a (participant, plan version) pair
FeedbackRows(fbs, pid, plan) ==
    { r \in BagToSet(fbs) : r.participant = pid /\ r.plan = plan }

\* db.record_participant_feedback(participant_id, plan_id, accepted,
\* feedback): an upsert keyed by the pair, the pair's rows are replaced by
\* the one row given
record_participant_feedback(fbs, pid, plan, accepted, feedback) ==
    LET row == [participant |-> pid, plan |-> plan, accepted |-> accepted,
                feedback |-> feedback]
        others == BagToSet(fbs) \ FeedbackRows(fbs, pid, plan)
    IN  [r \in others |-> fbs[r]] (+) SetToBag({row})

\* --------------------------------------- communication_handler.py
SmsEnabled == TRUE
EmailEnabled == TRUE

\* the methods class CommunicationHandler defines
CommunicationHandlerMethods ==
    { "_generate_participant_link", "initiate_contact", "_detect_contact_type",
      "_send_sms", "_send_email", "_make_phone_call", "send_reminder",
      "_generate_organizer_link", "send_plan_to_organizer",
      "send_plan_to_participant", "notify_organizer_of_rejection",
      "_format_plan_for_message" }

_detect_contact_type(contact) == IF HasAt(contact) THEN "email" ELSE "phone"

\* one delivery handed to _send_sms / _send_email
Delivery(to, channel, kind) == [to |-> to, channel |-> channel, kind |-> kind]

\* what a call leaves behind: the exception it raised (NoneVal when it
\* returned) and the deliveries it made
Outcome(raised, sent) == [raised |-> raised, sent |-> sent]

\* a Python call binds when every parameter (none has a default) gets a
\* keyword and no keyword is unknown; otherwise it raises TypeError
Binds(params, keywords) == params = keywords

\* comm_handler.initiate_contact(...)
initiate_contact(pid, contact) ==
    LET contact_type == _detect_contact_type(contact) IN
    IF contact_type = "phone" /\ SmsEnabled
    THEN Outcome(NoneVal, <<Delivery(pid, "sms", "intro")>>)
    ELSE IF contact_type = "email" /\ EmailEnabled
    THEN Outcome(NoneVal, <<Delivery(pid, "email", "intro")>>)
    ELSE Outcome(NoneVal, <<>>)

\* comm_handler.send_reminder(...): the method handed in picks the channel,
\* the contact string is only the address; any other method is logged
send_reminder(pid, contact, method) ==
    IF method = "sms" /\ SmsEnabled
    THEN Outcome(NoneVal, <<Delivery(pid, "sms", "reminder")>>)
    ELSE IF method = "email" /\ EmailEnabled
    THEN Outcome(NoneVal, <<Delivery(pid, "email", "reminder")>>)
    ELSE Outcome(NoneVal, <<>>)

\* comm_handler.send_question(...): CommunicationHandler defines no such
\* method, the attribute lookup raises
send_question(pid, contact, method, question) ==
    Outcome(IF "send_question" \in CommunicationHandlerMethods
            THEN NoneVal ELSE "AttributeError", <<>>)

send_plan_to_participant_params ==
    { "session_id", "participant_id", "participant_name", "participant_contact",
      "preferred_method", "event_name", "organizer_name", "plan" }

\* comm_handler.send_plan_to_participant called with `keywords`
send_plan_to_participant(keywords, pid, contact, preferred_method) ==
    IF ~Binds(send_plan_to_participant_params, keywords)
    THEN Outcome("TypeError", <<>>)
    ELSE IF preferred_method = "sms" /\ SmsEnabled
    THEN Outcome(NoneVal, <<Delivery(pid, "sms", "plan")>>)
    ELSE IF preferred_method = "email" /\ EmailEnabled
    THEN Outcome(NoneVal, <<Delivery(pid, "email", "plan")>>)
    ELSE LET contact_type == _detect_contact_type(contact) IN
         IF contact_type = "phone" /\ SmsEnabled
         THEN Outcome(NoneVal, <<Delivery(pid, "sms", "plan")>>)
         ELSE IF contact_type = "email" /\ EmailEnabled
         \* email_body is assigned only in the preferred-email branch
         THEN Outcome("UnboundLocalError", <<>>)
         ELSE Outcome(NoneVal, <<>>)

send_plan_to_organizer_params ==
    { "session_id", "organizer_name", "organizer_contact", "event_name", "plan" }

\* comm_handler.send_plan_to_organizer called with `keywords`; the
\* organizer is recipient 0
send_plan_to_organizer(keywords, organizer_contact, plan) ==
    IF ~Binds(send_plan_to_organizer_params, keywords)
    THEN Outcome("TypeError", <<>>)
    ELSE LET contact_type == _detect_contact_type(organizer_contact) IN
         IF contact_type = "phone" /\ SmsEnabled
         THEN Outcome(NoneVal, <<Delivery(0, "sms", "proposal")>>)
         ELSE IF contact_type = "email" /\ EmailEnabled
         THEN Outcome(NoneVal, <<Delivery(0, "email", "proposal")>>)
         ELSE Outcome(NoneVal, <<>>)

notify_organizer_of_rejection_params ==
    { "session_id", "organizer_name", "organizer_contact", "participant_name",
      "event_name", "feedback" }

\* the message notify_organizer_of_rejection hands to _send_sms /
\* _send_email: it names the participant and quotes the feedback
RejectionNotice(channel, pid, feedback) ==
    [to |-> 0, channel |-> channel, kind |-> "rejection", participant |-> pid,
     feedback |-> feedback]

\* comm_handler.notify_organizer_of_rejection called with `keywords`
notify_organizer_of_rejection(keywords, organizer_contact, pid, feedback) ==
    IF ~Binds(notify_organizer_of_rejection_params, keywords)
    THEN Outcome("TypeError", <<>>)
    ELSE LET contact_type == _detect_contact_type(organizer_contact) IN
         IF contact_type = "phone" /\ SmsEnabled
         THEN Outcome(NoneVal, <<RejectionNotice("sms", pid, feedback)>>)
         ELSE IF contact_type = "email" /\ EmailEnabled
         THEN Outcome(NoneVal, <<RejectionNotice("email", pid, feedback)>>)
         ELSE Outcome(NoneVal, <<>>)

\* ------------------------------------------------------ plan_generator.py
\* PlanGenerator._create_mock_plan: now.replace(day = now.day +
\* ((12 - now.weekday()) % 7)) raises ValueError when that day is past the
\* end of the month
_create_mock_plan(now) ==
    LET day == now.day + ((12 - now.weekday) % 7) IN
    IF day > now.monthdays THEN "ValueError" ELSE NoneVal

\* PlanGenerator.create_plan: reads the session, its participants, their
\* responses and methods, then builds the plan
create_plan(parts, sid, now) == _create_mock_plan(now)

\* the plan content _create_mock_plan returns, the only content ever stored
mock_plan ==
    [time |-> "2:00 PM - 5:00 PM", location |-> "Central Park",
     activities |-> <<"Picnic", "Board Games", "Nature Walk">>]

\* what a PlanGenerator call leaves behind: the exception it raised and
\* the plan it returned
Draft(raised, returned) == [raised |-> raised, returned |-> returned]

\* PlanGenerator._create_mock_revised_plan: feedback.lower() of None raises;
\* the revision reason names the participant when one is given (0: none)
_create_mock_revised_plan(existing_plan, feedback, participant_name) ==
    IF ~feedback.some THEN Draft("AttributeError", NoneVal)
    ELSE LET f == Lower(feedback.text) IN
         Draft(NoneVal,
               [time |-> IF Contains(f, <<"t","i","m","e">>)
                         THEN "3:00 PM - 6:00 PM" ELSE existing_plan.time,
                location |-> IF Contains(f, <<"l","o","c","a","t","i","o","n">>)
                             THEN "Riverside Park" ELSE existing_plan.location,
                activities |-> IF Contains(f, <<"a","c","t","i","v","i","t","y">>)
                                  \/ Contains(f, <<"a","c","t","i","v","i","t","i","e","s">>)
                               THEN <<"Picnic", "Frisbee", "Card Games">>
                               ELSE existing_plan.activities,
                revision_reason |->
                    [text |-> "Plan revised based on feedback",
                     from |-> participant_name]])

\* PlanGenerator.revise_plan: reads the plan, the session's participants and
\* the participant's name, returns the revised plan and stores nothing
revise_plan(parts, pls, sid, plan, feedback, pid) ==
    LET participant_name == IF pid # 0 THEN pid ELSE 0 IN
    _create_mock_revised_plan(mock_plan, feedback, participant_name)

\* ------------------------------------------------- preference_collector.py
base_questions_len == 10
continuation_threshold == 5

\* _generate_next_question that turns to the generic follow-up once the
\* continuation threshold is passed
_generate_next_question_follows_up_early(previous_responses) ==
    IF previous_responses = 0 THEN 0
    ELSE IF previous_responses <= continuation_threshold THEN previous_responses
    ELSE base_questions_len

\* PreferenceCollector._generate_next_question: the index (from 0) of the
\* base question to ask, base_questions_len for the generic follow-up
_generate_next_question(previous_responses) ==
    IF previous_responses = 0 THEN 0
    ELSE IF previous_responses < base_questions_len THEN previous_responses
    ELSE base_questions_len

\* what a handler leaves behind: the participant and plan rows, the
\* exception that ended it (NoneVal when it returned) and its deliveries
Result(parts, pls, raised, sent) ==
    [parts |-> parts, pls |-> pls, raised |-> raised, sent |-> sent]

\* PreferenceCollector._send_next_question
_send_next_question(parts, pls, pid) ==
    LET next_question == _generate_next_question(get_participant_responses(parts, pid))
        stored == store_question(parts, pid, next_question)
        out == send_question(pid, stored[pid].contact,
                             get_preferred_comm_method(stored, pid), next_question)
    IN  Result(stored, pls, out.raised, out.sent)

\* process_preferred_comm_method that looks the response up as typed,
\* neither stripped nor lower-cased
process_preferred_comm_method_as_typed(parts, pls, pid, response) ==
    LET r == response
        method ==
            IF r \in { <<"1">>, <<"t","e","x","t">>, <<"s","m","s">>, <<"t","x","t">> }
            THEN "sms"
            ELSE IF r \in { <<"2">>, <<"e","m","a","i","l">>,
                            <<"e","-","m","a","i","l">>, <<"m","a","i","l">> }
            THEN "email"
            ELSE IF r \in { <<"3">>, <<"p","h","o","n","e">>, <<"c","a","l","l">>,
                            <<"v","o","i","c","e">> }
            THEN "phone"
            ELSE IF HasAt(get_participant_contact(parts, pid)) THEN "email" ELSE "sms"
    IN  _send_next_question(set_preferred_comm_method(parts, pid, method), pls, pid)

\* PreferenceCollector.process_preferred_comm_method
process_preferred_comm_method(parts, pls, pid, response) ==
    LET r == Normalize(response)
        method ==
            IF r \in { <<"1">>, <<"t","e","x","t">>, <<"s","m","s">>, <<"t","x","t">> }
            THEN "sms"
            ELSE IF r \in { <<"2">>, <<"e","m","a","i","l">>,
                            <<"e","-","m","a","i","l">>, <<"m","a","i","l">> }
            THEN "email"
            ELSE IF r \in { <<"3">>, <<"p","h","o","n","e">>, <<"c","a","l","l">>,
                            <<"v","o","i","c","e">> }
            THEN "phone"
            ELSE IF HasAt(get_participant_contact(parts, pid)) THEN "email" ELSE "sms"
    IN  _send_next_question(set_preferred_comm_method(parts, pid, method), pls, pid)

\* process_question_response that closes the collection, instead of asking
\* to continue, when the threshold is reached
process_question_response_closes_at_threshold(parts, pls, pid) ==
    LET stored == store_preference_response(parts, pid)
        question_count == get_question_count(stored, pid)
    IN  IF question_count >= continuation_threshold
        THEN LET out == send_question(pid, stored[pid].contact,
                                      get_preferred_comm_method(stored, pid),
                                      "thanks")
             IN  Result(mark_preferences_complete(stored, pid), pls, out.raised,
                        out.sent)
        ELSE _send_next_question(stored, pls, pid)

\* PreferenceCollector.process_question_response
process_question_response(parts, pls, pid) ==
    LET stored == store_preference_response(parts, pid)
        question_count == get_question_count(stored, pid)
    IN  IF question_count >= continuation_threshold
        THEN LET out == send_question(pid, stored[pid].contact,
                                      get_preferred_comm_method(stored, pid),
                                      "continue")
             IN  IF out.raised # NoneVal
                 THEN Result(stored, pls, out.raised, out.sent)
                 ELSE Result(set_awaiting_continuation(stored, pid, TRUE), pls,
                             NoneVal, out.sent)
        ELSE _send_next_question(stored, pls, pid)

\* the answers process_continuation_response takes for a yes
AffirmativeResponses ==
    { <<"y","e","s">>, <<"y">>, <<"s","u","r","e">>, <<"o","k">>,
      <<"o","k","a","y">>, <<"c","o","n","t","i","n","u","e">> }

\* PreferenceCollector.process_continuation_response
process_continuation_response(parts, pls, pid, response) ==
    LET r == Normalize(response)
        reset == set_awaiting_continuation(parts, pid, FALSE)
    IN  IF r \in AffirmativeResponses
        THEN _send_next_question(reset, pls, pid)
        ELSE LET done == mark_preferences_complete(reset, pid)
                 out == send_question(pid, done[pid].contact,
                                      get_preferred_comm_method(done, pid),
                                      "thanks")
             IN  Result(done, pls, out.raised, out.sent)

\* the methods class PreferenceCollector defines
PreferenceCollectorMethods ==
    { "process_preferred_comm_method", "process_question_response",
      "process_continuation_response", "_send_next_question",
      "_generate_next_question" }

\* main.complete_preferences: calls
\* planner.preference_collector.complete_preference_collection(...)
complete_preferences(parts, pls, pid) ==
    Result(parts, pls,
           IF "complete_preference_collection" \in PreferenceCollectorMethods
           THEN NoneVal ELSE "AttributeError", <<>>)

\* --------------------------------------------------------- core_planner.py
\* CorePlanner.create_planning_session: the rows of the participants added
RECURSIVE add_participants(_, _, _)
add_participants(parts, sid, contacts) ==
    IF contacts = <<>> THEN parts
    ELSE add_participants(add_participant(parts, sid, Head(contacts)), sid,
                          Tail(contacts))

\* CorePlanner.create_planning_session over a store whose `failing`-th
\* add_participant raises (0: none does): db.create_session has written the
\* session row, the participants before the failing one are written, the
\* loop ends there
create_planning_session(sess, parts, req, failing) ==
    LET sid == Len(sess) + 1
        created == Append(sess, [organizer_contact |-> req.organizer_contact])
        added == IF failing = 0 THEN req.participants
                 ELSE SubSeq(req.participants, 1, failing - 1)
    IN  [sess |-> created, parts |-> add_participants(parts, sid, added),
         sid |-> sid, raised |-> IF failing = 0 THEN NoneVal ELSE "StorageError"]

\* CorePlanner.start_outreach: initiate_contact for each participant in turn
RECURSIVE start_outreach(_, _)
start_outreach(parts, pids) ==
    IF pids = <<>> THEN Outcome(NoneVal, <<>>)
    ELSE LET out == initiate_contact(Head(pids), parts[Head(pids)].contact) IN
         IF out.raised # NoneVal THEN out
         ELSE LET rest == start_outreach(parts, Tail(pids)) IN
              Outcome(rest.raised, out.sent \o rest.sent)

\* a quotient of Python's true division, kept as the fraction it stands for
\* (the code does not round it)
Quotient(num, den) == [num |-> num, den |-> den]

\* check_preferences_status with the percentage taken of the participants
\* still pending
check_preferences_status_percent_pending(parts, sid) ==
    LET session_participants == get_participants(parts, sid)
        completed == SelectSeq(session_participants,
                         LAMBDA p : is_preference_collection_complete(parts, p))
        pending == Len(session_participants) - Len(completed)
    IN  [total_participants |-> Len(session_participants),
         completed |-> Len(completed),
         pending |-> pending,
         complete_percentage |->
             IF session_participants # <<>>
             THEN Quotient(pending * 100, Len(session_participants))
             ELSE Quotient(0, 1)]

\* check_preferences_status with pending taken as "has answered nothing yet"
check_preferences_status_unanswered(parts, sid) ==
    LET session_participants == get_participants(parts, sid)
        completed == SelectSeq(session_participants,
                         LAMBDA p : is_preference_collection_complete(parts, p))
        unanswered == SelectSeq(session_participants,
                          LAMBDA p : get_question_count(parts, p) = 0)
    IN  [total_participants |-> Len(session_participants),
         completed |-> Len(completed),
         pending |-> Len(unanswered),
         complete_percentage |->
             IF session_participants # <<>>
             THEN Quotient(Len(completed) * 100, Len(session_participants))
             ELSE Quotient(0, 1)]

\* CorePlanner.check_preferences_status
check_preferences_status(parts, sid) ==
    LET session_participants == get_participants(parts, sid)
        completed == SelectSeq(session_participants,
                         LAMBDA p : is_preference_collection_complete(parts, p))
    IN  [total_participants |-> Len(session_participants),
         completed |-> Len(completed),
         pending |-> Len(session_participants) - Len(completed),
         complete_percentage |->
             IF session_participants # <<>>
             THEN Quotient(Len(completed) * 100, Len(session_participants))
             ELSE Quotient(0, 1)]

\* generate_plan that gives up, instead of warning, while preferences are
\* pending
generate_plan_requires_complete(parts, pls, sid, now) ==
    LET status == check_preferences_status(parts, sid)
        raised == create_plan(parts, sid, now)
    IN  IF status.pending > 0 THEN Result(parts, pls, NoneVal, <<>>)
        ELSE IF raised # NoneVal THEN Result(parts, pls, raised, <<>>)
        ELSE Result(parts, store_plan(pls, sid), NoneVal, <<>>)

\* generate_plan that stores a plan version before the plan is built
generate_plan_stores_first(parts, pls, sid, now) ==
    LET status == check_preferences_status(parts, sid)
        stored == store_plan(pls, sid)
        raised == create_plan(parts, sid, now)
    IN  Result(parts, stored, raised, <<>>)

\* generate_plan that raises, instead of warning, while preferences are
\* pending
generate_plan_refuses_pending(parts, pls, sid, now) ==
    LET status == check_preferences_status(parts, sid)
        raised == create_plan(parts, sid, now)
    IN  IF status.pending > 0 THEN Result(parts, pls, "ValueError", <<>>)
        ELSE IF raised # NoneVal THEN Result(parts, pls, raised, <<>>)
        ELSE Result(parts, store_plan(pls, sid), NoneVal, <<>>)

\* CorePlanner.generate_plan
generate_plan(parts, pls, sid, now) ==
    LET status == check_preferences_status(parts, sid)
        raised == create_plan(parts, sid, now)
    IN  IF raised # NoneVal THEN Result(parts, pls, raised, <<>>)
        ELSE Result(parts, store_plan(pls, sid), NoneVal, <<>>)

\* the keywords CorePlanner.submit_plan_to_organizer passes
submit_plan_keywords ==
    { "organizer_name", "organizer_contact", "event_name", "plan" }

\* CorePlanner.submit_plan_to_organizer
submit_plan_to_organizer(sess, pls, sid) ==
    send_plan_to_organizer(submit_plan_keywords, sess[sid].organizer_contact,
                           get_latest_plan(pls, sid))

\* the keywords CorePlanner.distribute_plan_to_participants passes
distribute_plan_keywords ==
    { "participant_name", "participant_contact", "preferred_method",
      "event_name", "organizer_name", "plan" }

\* CorePlanner.distribute_plan_to_participants: one send per participant,
\* in order, ended by the first send that raises
RECURSIVE distribute_plan_to_participants(_, _)
distribute_plan_to_participants(parts, pids) ==
    IF pids = <<>> THEN Outcome(NoneVal, <<>>)
    ELSE LET p == Head(pids)
             out == send_plan_to_participant(distribute_plan_keywords, p,
                        parts[p].contact, get_preferred_comm_method(parts, p))
         IN  IF out.raised # NoneVal THEN out
             ELSE LET rest == distribute_plan_to_participants(parts, Tail(pids)) IN
                  Outcome(rest.raised, out.sent \o rest.sent)

\* record_organizer_decision that regenerates a plan when the organizer
\* rejects
record_organizer_decision_regenerates(parts, pls, sid, plan, approved, feedback) ==
    LET updated == update_plan_status(pls, plan,
                       IF approved THEN "approved" ELSE "rejected", feedback)
    IN  IF approved
        THEN LET out == distribute_plan_to_participants(parts,
                            get_participants(parts, sid))
             IN  Result(parts, updated, out.raised, out.sent)
        ELSE Result(parts, store_plan(updated, sid), NoneVal, <<>>)

\* CorePlanner.record_organizer_decision
record_organizer_decision(parts, pls, sid, plan, approved, feedback) ==
    LET updated == update_plan_status(pls, plan,
                       IF approved THEN "approved" ELSE "rejected", feedback)
    IN  IF approved
        THEN LET out == distribute_plan_to_participants(parts,
                            get_participants(parts, sid))
             IN  Result(parts, updated, out.raised, out.sent)
        ELSE Result(parts, updated, NoneVal, <<>>)

\* the keywords CorePlanner.collect_participant_feedback passes
notify_rejection_keywords ==
    { "organizer_name", "organizer_contact", "participant_name", "event_name",
      "feedback" }

\* what collect_participant_feedback leaves behind: the plan and feedback
\* rows, the exception that ended it and its deliveries
FeedbackResult(pls, fbs, raised, sent) ==
    [pls |-> pls, fbs |-> fbs, raised |-> raised, sent |-> sent]

\* collect_participant_feedback that files the feedback only when it tells
\* the organizer of a rejection
collect_participant_feedback_rejections_only(sess, pls, fbs, sid, pid, accepted, feedback) ==
    LET plan_id == get_latest_approved_plan_id(pls, sid)
        recorded == record_participant_feedback(fbs, pid, plan_id, accepted, feedback)
    IN  IF ~accepted /\ Truthy(feedback)
        THEN LET out == notify_organizer_of_rejection(notify_rejection_keywords,
                            sess[sid].organizer_contact, pid, feedback.text)
             IN  FeedbackResult(pls, recorded, out.raised, out.sent)
        ELSE FeedbackResult(pls, fbs, NoneVal, <<>>)

\* collect_participant_feedback that has a new plan version stored when a
\* participant rejects with feedback
collect_participant_feedback_revises(sess, pls, fbs, sid, pid, accepted, feedback) ==
    LET plan_id == get_latest_approved_plan_id(pls, sid)
        recorded == record_participant_feedback(fbs, pid, plan_id, accepted, feedback)
    IN  IF ~accepted /\ Truthy(feedback)
        THEN LET out == notify_organizer_of_rejection(notify_rejection_keywords,
                            sess[sid].organizer_contact, pid, feedback.text)
             IN  FeedbackResult(store_plan(pls, sid), recorded, out.raised, out.sent)
        ELSE FeedbackResult(pls, recorded, NoneVal, <<>>)

\* CorePlanner.collect_participant_feedback
collect_participant_feedback(sess, pls, fbs, sid, pid, accepted, feedback) ==
    LET plan_id == get_latest_approved_plan_id(pls, sid)
        recorded == record_participant_feedback(fbs, pid, plan_id, accepted, feedback)
    IN  IF ~accepted /\ Truthy(feedback)
        THEN LET out == notify_organizer_of_rejection(notify_rejection_keywords,
                            sess[sid].organizer_contact, pid, feedback.text)
             IN  FeedbackResult(pls, recorded, out.raised, out.sent)
        ELSE FeedbackResult(pls, recorded, NoneVal, <<>>)

\* ------------------------------------------------------------------ main.py
\* main.generate_plan: the two background tasks run one after the other,
\* the second only when the first returned
main_generate_plan(sess, parts, pls, sid, now) ==
    LET generated == generate_plan(parts, pls, sid, now) IN
    IF generated.raised # NoneVal THEN generated
    ELSE LET out == submit_plan_to_organizer(sess, generated.pls, sid) IN
         Result(generated.parts, generated.pls, out.raised, out.sent)

\* main.send_reminder: the stored method, "sms" when none is stored
main_send_reminder(parts, pid) ==
    LET stored == get_preferred_comm_method(parts, pid)
        method == IF stored = NoneVal THEN "sms" ELSE stored
    IN  send_reminder(pid, parts[pid].contact, method)

\* get_session_status with plan_approved read off the latest version alone
plan_status_of_latest(pls, sid) ==
    LET latest_plan == get_latest_plan(pls, sid) IN
    IF latest_plan # 0
    THEN [has_plan |-> TRUE,
          plan_approved |-> pls[latest_plan].status = "approved",
          plan_details |-> latest_plan]
    ELSE [has_plan |-> FALSE]

\* main.get_session_status, the plan_status it returns; plan_details is the
\* id of the plan row returned (0 stands for None, as in the store)
plan_status(pls, sid) ==
    LET latest_plan == get_latest_plan(pls, sid) IN
    IF latest_plan # 0
    THEN [has_plan |-> TRUE,
          plan_approved |-> get_latest_approved_plan_id(pls, sid) # 0,
          plan_details |-> latest_plan]
    ELSE [has_plan |-> FALSE]

\* ------------------------------------------------------------- the machine
\* The preference handlers take a session_id beside the participant_id and
\* only pass it on; the invocation records the participant's own session.
\* the record of a completed handler invocation
Invocation(op, sid, pid, plan, approved, arg, raised, sent) ==
    [op |-> op, sid |-> sid, pid |-> pid, plan |-> plan, approved |-> approved,
     arg |-> arg, raised |-> raised, sent |-> sent, returned |-> NoneVal]

Init ==
    /\ sessions = <<>>
    /\ participants = <<>>
    /\ plans = <<>>
    /\ feedbacks = EmptyBag
    /\ tasks = EmptyBag
    /\ last = Invocation("init", 0, 0, 0, FALSE, <<>>, NoneVal, <<>>)

\* POST /sessions
CreateSession(req) ==
    /\ Len(sessions) < MaxSessions
    /\ Len(participants) + Len(req.participants) <= MaxParticipants
    /\ LET sid == Len(sessions) + 1 IN
       /\ sessions' = Append(sessions, [organizer_contact |-> req.organizer_contact])
       /\ participants' = add_participants(participants, sid, req.participants)
       /\ last' = Invocation("create_session", sid, 0, 0, FALSE, <<>>, NoneVal, <<>>)
    /\ UNCHANGED <<plans, feedbacks, tasks>>

\* POST /sessions over a store that may fail at one participant insert; the
\* invocation records the participants asked for and the failing insert
CreateSessionOverStore(req, failing) ==
    /\ Len(sessions) < MaxSessions
    /\ Len(participants) + Len(req.participants) <= MaxParticipants
    /\ LET res == create_planning_session(sessions, participants, req, failing) IN
       /\ sessions' = res.sess
       /\ participants' = res.parts
       /\ last' = Invocation("create_session", res.sid, 0, 0, FALSE,
                             <<req.participants, failing>>, res.raised, <<>>)
    /\ UNCHANGED <<plans, feedbacks, tasks>>

\* the outreach task of a session
StartOutreach(sid) ==
    /\ LET out == start_outreach(participants, get_participants(participants, sid)) IN
       last' = Invocation("start_outreach", sid, 0, 0, FALSE, <<>>, out.raised, out.sent)
    /\ UNCHANGED <<sessions, participants, plans, feedbacks, tasks>>

\* POST /participant/send-reminder
SendReminder(pid) ==
    /\ LET out == main_send_reminder(participants, pid) IN
       last' = Invocation("send_reminder", participants[pid].session, pid, 0,
                          FALSE, <<>>, out.raised, out.sent)
    /\ UNCHANGED <<sessions, participants, plans, feedbacks, tasks>>

RECURSIVE Total(_, _)
Total(parts, field) ==
    IF parts = <<>> THEN 0 ELSE Head(parts)[field] + Total(Tail(parts), field)

\* the rows a handler leaves stay within the bounds explored; a participant
\* who is the only one stored is followed past the end of the question list
WithinBounds(res) ==
    /\ Total(res.parts, "responses")
         <= IF Len(res.parts) = 1 THEN MaxAnswers ELSE MaxResponses
    /\ Len(res.pls) <= MaxPlans

\* a handler's outcome written back
Commit(op, sid, pid, plan, approved, arg, res) ==
    /\ WithinBounds(res)
    /\ participants' = res.parts
    /\ plans' = res.pls
    /\ last' = Invocation(op, sid, pid, plan, approved, arg, res.raised, res.sent)
    /\ UNCHANGED <<sessions, feedbacks, tasks>>

\* POST /preferences/comm-method
SetCommunicationPreference(pid, response) ==
    Commit("set_communication_preference", participants[pid].session, pid, 0,
           FALSE, response,
           process_preferred_comm_method(participants, plans, pid, response))

\* POST /preferences/response with the session_id and the participant_id of
\* the request; the handler passes the session_id on and reads it nowhere
PreferenceResponseRequest(sid, pid) ==
    Commit("process_preference_response", sid, pid, 0, FALSE, <<>>,
           process_question_response(participants, plans, pid))

\* POST /preferences/response naming the participant's own session
ProcessPreferenceResponse(pid) ==
    PreferenceResponseRequest(participants[pid].session, pid)

\* the continuation answer of a participant
ProcessContinuationResponse(pid, response) ==
    Commit("process_continuation_response", participants[pid].session, pid, 0,
           FALSE, response,
           process_continuation_response(participants, plans, pid, response))

\* POST /preferences/complete
CompletePreferences(pid) ==
    Commit("complete_preferences", participants[pid].session, pid, 0, FALSE, <<>>,
           complete_preferences(participants, plans, pid))

\* POST /plans/generate/{session_id}
GeneratePlan(sid, now) ==
    Commit("generate_plan", sid, 0, 0, FALSE, <<now>>,
           main_generate_plan(sessions, participants, plans, sid, now))

\* a background task of a POST /plans/generate request for session `sid`,
\* about to run the function `at`
Task(sid, at) == [sid |-> sid, at |-> at]

\* POST /plans/generate/{session_id} as the server runs it: the endpoint
\* queues planner.generate_plan and planner.submit_plan_to_organizer and
\* returns; the two run later, in that order, in a worker thread beside the
\* tasks of other requests
RequestGeneratePlan(sid) ==
    /\ BagCardinality(tasks) < MaxTasks
    /\ tasks' = tasks (+) SetToBag({Task(sid, "generate_plan")})
    /\ last' = Invocation("request_generate_plan", sid, 0, 0, FALSE, <<>>,
                          NoneVal, <<>>)
    /\ UNCHANGED <<sessions, participants, plans, feedbacks>>

\* a queued generate_plan runs.  Its reads of the participants come before
\* its one write, store_plan, and decide nothing about that write, so the
\* call is one step taken at the write.  When it raises, the request's
\* second task is not run.
RunGeneratePlanTask(sid, now) ==
    LET t == Task(sid, "generate_plan")
        res == generate_plan(participants, plans, sid, now)
        rest == tasks (-) SetToBag({t})
    IN  /\ BagIn(t, tasks)
        /\ WithinBounds(res)
        /\ participants' = res.parts
        /\ plans' = res.pls
        /\ tasks' = IF res.raised # NoneVal THEN rest
                    ELSE rest (+) SetToBag({Task(sid, "submit_plan_to_organizer")})
        /\ last' = Invocation("generate_plan_task", sid, 0, 0, FALSE, <<now>>,
                              res.raised, res.sent)
        /\ UNCHANGED <<sessions, feedbacks>>

\* a queued submit_plan_to_organizer runs: it sends the latest version the
\* session has by then
RunSubmitPlanTask(sid) ==
    LET t == Task(sid, "submit_plan_to_organizer")
        out == submit_plan_to_organizer(sessions, plans, sid)
    IN  /\ BagIn(t, tasks)
        /\ tasks' = tasks (-) SetToBag({t})
        /\ last' = Invocation("submit_plan_task", sid, 0,
                              get_latest_plan(plans, sid), FALSE, <<>>,
                              out.raised, out.sent)
        /\ UNCHANGED <<sessions, participants, plans, feedbacks>>

\* POST /plans/organizer-decision
RecordOrganizerDecision(sid, plan, approved, feedback) ==
    Commit("record_organizer_decision", sid, 0, plan, approved, <<>>,
           record_organizer_decision(participants, plans, sid, plan, approved,
                                     feedback))

\* POST /plans/participant-feedback; the invocation records the plan
\* version the feedback was filed under
RecordParticipantFeedback(sid, pid, accepted, feedback) ==
    LET res == collect_participant_feedback(sessions, plans, feedbacks, sid, pid,
                                            accepted, feedback)
    IN  /\ BagCardinality(res.fbs) <= MaxFeedbacks
        /\ Len(res.pls) <= MaxPlans
        /\ feedbacks' = res.fbs
        /\ plans' = res.pls
        /\ last' = Invocation("record_participant_feedback", sid, pid,
                              get_latest_approved_plan_id(plans, sid), accepted,
                              <<feedback>>, res.raised, res.sent)
        /\ UNCHANGED <<sessions, participants, tasks>>

\* POST /plans/participant-feedback sent by a participant in answer to the
\* approved version `about` of the participant's session.  The request
\* (ParticipantFeedbackRequest) has no field for that version, so the
\* handler is called as ever; the invocation keeps `about` beside the text
ParticipantFeedbackAbout(pid, about, accepted, feedback) ==
    LET sid == participants[pid].session
        res == collect_participant_feedback(sessions, plans, feedbacks, sid, pid,
                                            accepted, feedback)
    IN  /\ plans[about].session = sid
        /\ plans[about].status = "approved"
        /\ BagCardinality(res.fbs) <= MaxFeedbacks
        /\ Len(res.pls) <= MaxPlans
        /\ feedbacks' = res.fbs
        /\ plans' = res.pls
        /\ last' = Invocation("record_participant_feedback", sid, pid,
                              get_latest_approved_plan_id(plans, sid), accepted,
                              <<feedback, about>>, res.raised, res.sent)
        /\ UNCHANGED <<sessions, participants, tasks>>

\* plan_generator.revise_plan(session_id, plan_id, feedback, participant_id)
\* for a stored plan of the session; no handler of src calls it
RevisePlan(plan, feedback, pid) ==
    LET sid == plans[plan].session
        out == revise_plan(participants, plans, sid, plan, feedback, pid)
    IN  /\ last' = [Invocation("revise_plan", sid, pid, plan, FALSE, <<feedback>>,
                               out.raised, <<>>)
                       EXCEPT !.returned = out.returned]
        /\ UNCHANGED <<sessions, participants, plans, feedbacks, tasks>>

\* the preference collection handlers
NextPreferences ==
    \/ \E req \in CreateRequests : CreateSession(req)
    \/ \E sid \in Sids : StartOutreach(sid)
    \/ \E pid \in Pids, r \in MethodInputs : SetCommunicationPreference(pid, r)
    \/ \E pid \in Pids : ProcessPreferenceResponse(pid)
    \/ \E pid \in Pids, r \in ContinuationInputs :
           ProcessContinuationResponse(pid, r)
    \/ \E pid \in Pids : CompletePreferences(pid)

\* the plan lifecycle handlers
NextPlans ==
    \/ \E req \in CreateRequests : CreateSession(req)
    \/ \E sid \in Sids, now \in Dates : GeneratePlan(sid, now)
    \/ \E sid \in Sids, plan \in PlanIds, d \in Decisions :
           RecordOrganizerDecision(sid, plan, d.approved, d.feedback)

SpecPreferences == Init /\ [][NextPreferences]_vars

SpecPlans == Init /\ [][NextPlans]_vars

\* the plan lifecycle handlers, over participants with any stored method
NextDistribution ==
    \/ NextPlans
    \/ \E pid \in Pids, r \in MethodInputs : SetCommunicationPreference(pid, r)

SpecDistribution == Init /\ [][NextDistribution]_vars

\* the state after POST /sessions has created the session of two
\* participants
InitFeedback ==
    /\ sessions = <<[organizer_contact |-> PhoneContact]>>
    /\ participants = add_participants(<<>>, 1, <<EmailContact, PhoneContact>>)
    /\ plans = <<>>
    /\ feedbacks = EmptyBag
    /\ tasks = EmptyBag
    /\ last = Invocation("create_session", 1, 0, 0, FALSE, <<>>, NoneVal, <<>>)

\* the plan lifecycle of that session and its participants' feedback on the
\* plan, each request naming the participant's own session
NextFeedback ==
    \/ \E sid \in Sids, now \in Dates : GeneratePlan(sid, now)
    \/ \E sid \in Sids, plan \in PlanIds, d \in Decisions :
           RecordOrganizerDecision(sid, plan, d.approved, d.feedback)
    \/ \E pid \in Pids, f \in FeedbackInputs :
           RecordParticipantFeedback(participants[pid].session, pid, f.accepted,
                                     f.feedback)

SpecFeedback == InitFeedback /\ [][NextFeedback]_vars

\* the plan lifecycle of that session and its participants' answers to the
\* versions approved for it
NextAnswers ==
    \/ \E sid \in Sids, now \in Dates : GeneratePlan(sid, now)
    \/ \E sid \in Sids, plan \in PlanIds, d \in Decisions :
           RecordOrganizerDecision(sid, plan, d.approved, d.feedback)
    \/ \E pid \in Pids, about \in PlanIds, f \in FeedbackInputs :
           ParticipantFeedbackAbout(pid, about, f.accepted, f.feedback)

SpecAnswers == InitFeedback /\ [][NextAnswers]_vars

\* the plan lifecycle of that session and the revision of its plans
NextRevision ==
    \/ \E sid \in Sids, now \in Dates : GeneratePlan(sid, now)
    \/ \E sid \in Sids, plan \in PlanIds, d \in Decisions :
           RecordOrganizerDecision(sid, plan, d.approved, d.feedback)
    \/ \E plan \in PlanIds, f \in RevisionInputs, pid \in Pids \cup {0} :
           RevisePlan(plan, f, pid)

SpecRevision == InitFeedback /\ [][NextRevision]_vars

\* the session registry over a store that may fail, the outreach of the
\* sessions it shows and the responses of the participants it shows
NextRegistry ==
    \/ \E req \in RegistryRequests :
           \E failing \in 0..Len(req.participants) :
               CreateSessionOverStore(req, failing)
    \/ \E sid \in Sids : StartOutreach(sid)
    \/ \E pid \in Pids : ProcessPreferenceResponse(pid)

SpecRegistry == Init /\ [][NextRegistry]_vars

\* the generate requests of that session with their background tasks
\* interleaved, and the organizer's decisions
NextBackground ==
    \/ \E sid \in Sids : RequestGeneratePlan(sid)
    \/ \E sid \in Sids, now \in Dates : RunGeneratePlanTask(sid, now)
    \/ \E sid \in Sids : RunSubmitPlanTask(sid)
    \/ \E sid \in Sids, plan \in PlanIds, d \in Decisions :
           RecordOrganizerDecision(sid, plan, d.approved, d.feedback)

SpecBackground == InitFeedback /\ [][NextBackground]_vars

\* the state after POST /sessions has created a session of one participant,
\* reached by e-mail or by phone
InitDialogue ==
    /\ sessions = <<[organizer_contact |-> PhoneContact]>>
    /\ \E contact \in {EmailContact, PhoneContact} :
           participants = add_participants(<<>>, 1, <<contact>>)
    /\ plans = <<>>
    /\ feedbacks = EmptyBag
    /\ tasks = EmptyBag
    /\ last = Invocation("create_session", 1, 0, 0, FALSE, <<>>, NoneVal, <<>>)

\* the dialogue with that participant: the method, the responses, the
\* continuation answers
NextDialogue ==
    \/ \E pid \in Pids, r \in MethodAnswers : SetCommunicationPreference(pid, r)
    \/ \E pid \in Pids : ProcessPreferenceResponse(pid)
    \/ \E pid \in Pids, r \in ContinuationInputs :
           ProcessContinuationResponse(pid, r)

SpecDialogue == InitDialogue /\ [][NextDialogue]_vars

\* the dialogue with that participant and the reminders sent meanwhile
NextReminder ==
    \/ NextDialogue
    \/ \E pid \in Pids : SendReminder(pid)

SpecReminder == InitDialogue /\ [][NextReminder]_vars

\* the state after POST /sessions has created a session of three
\* participants and a session of none
InitStatus ==
    /\ sessions = <<[organizer_contact |-> PhoneContact],
                    [organizer_contact |-> EmailContact]>>
    /\ participants = add_participants(<<>>, 1,
                          <<EmailContact, PhoneContact, EmailContact>>)
    /\ plans = <<>>
    /\ feedbacks = EmptyBag
    /\ tasks = EmptyBag
    /\ last = Invocation("create_session", 2, 0, 0, FALSE, <<>>, NoneVal, <<>>)

\* the outreach of the two sessions and what ends a collection: the
\* continuation answers and POST /preferences/complete
NextStatus ==
    \/ \E sid \in Sids : StartOutreach(sid)
    \/ \E pid \in Pids, r \in ContinuationInputs :
           ProcessContinuationResponse(pid, r)
    \/ \E pid \in Pids : CompletePreferences(pid)

SpecStatus == InitStatus /\ [][NextStatus]_vars

\* plan generation beside the handlers that complete participants
NextPending ==
    \/ NextStatus
    \/ \E sid \in Sids, now \in Dates : GeneratePlan(sid, now)

SpecPending == InitStatus /\ [][NextPending]_vars

\* the state after POST /sessions has created two sessions of one
\* participant each
InitTwoSessions ==
    /\ sessions = <<[organizer_contact |-> PhoneContact],
                    [organizer_contact |-> EmailContact]>>
    /\ participants = add_participants(add_participants(<<>>, 1, <<EmailContact>>),
                                       2, <<PhoneContact>>)
    /\ plans = <<>>
    /\ feedbacks = EmptyBag
    /\ tasks = EmptyBag
    /\ last = Invocation("create_session", 2, 0, 0, FALSE, <<>>, NoneVal, <<>>)

\* requests that name any session beside any participant or plan
NextTwoSessions ==
    \/ \E sid \in Sids, pid \in Pids : PreferenceResponseRequest(sid, pid)
    \/ \E sid \in Sids, now \in Dates : GeneratePlan(sid, now)
    \/ \E sid \in Sids, plan \in PlanIds, d \in Decisions :
           RecordOrganizerDecision(sid, plan, d.approved, d.feedback)

SpecTwoSessions == InitTwoSessions /\ [][NextTwoSessions]_vars

\* every handler
Next ==
    \/ NextPreferences \/ NextPlans \/ NextFeedback \/ NextRevision
    \/ NextRegistry \/ NextBackground \/ NextDialogue \/ NextStatus
    \/ NextTwoSessions \/ NextPending \/ NextReminder \/ NextAnswers

Spec == Init /\ [][Next]_vars

\* ---------------------------------------------------------------- claims
\* the participants of a session
SessionPids(sid) == { p \in Pids : participants[p].session = sid }

\* the plan deliveries of the last invocation that went to participant p
PlanDeliveries(inv, p) ==
    { i \in 1..Len(inv.sent) : inv.sent[i].to = p /\ inv.sent[i].kind = "plan" }

\* the channel a stored preferred method names
ChannelOf(method) == IF method = "phone" THEN "voice" ELSE method

\* the step just taken is a decision on plan version last'.plan
DecisionStep == last'.op = "record_organizer_decision"

\* C1: recordOrganizerDecision on a plan version that is not pending the
\* organizer's decision fails with StateError and leaves the plan's status
\* and organizer feedback as they were.
C1_DecidedPlanIsNotDecidedAgain ==
    [][DecisionStep /\ plans[last'.plan].status # "pending"
         => /\ last'.raised = "StateError"
            /\ plans'[last'.plan].status = plans[last'.plan].status
            /\ plans'[last'.plan].feedback = plans[last'.plan].feedback]_vars

\* C2: one approval of a pending plan makes exactly one plan delivery to
\* each participant of the session, over the channel of the method the
\* participant has stored.
C2_ApprovalDeliversOnceToEach ==
    [][DecisionStep /\ last'.approved /\ plans[last'.plan].status = "pending"
         /\ plans[last'.plan].session = last'.sid
         => \A p \in SessionPids(last'.sid) :
              /\ Cardinality(PlanDeliveries(last', p)) = 1
              /\ \A i \in PlanDeliveries(last', p) :
                   participants[p].method # NoneVal
                     => last'.sent[i].channel = ChannelOf(participants[p].method)]_vars

\* C3: approving a pending plan ends with the plan distributed: its status
\* is DISTRIBUTED, or it is approved and the distribution that followed ran
\* to its end; the plan is not left approved with the distribution undone.
C3_ApprovedPlanEndsDistributed ==
    [][DecisionStep /\ last'.approved /\ plans[last'.plan].status = "pending"
         => \/ plans'[last'.plan].status = "distributed"
            \/ plans'[last'.plan].status = "approved" /\ last'.raised = NoneVal]_vars

C5_CompletedPlusPendingIsTotal ==
    \A sid \in Sids :
        LET status == check_preferences_status(participants, sid) IN
        /\ status.completed + status.pending = status.total_participants
        /\ status.total_participants = Cardinality(SessionPids(sid))
        /\ status.completed =
               Cardinality({ p \in SessionPids(sid) : participants[p].complete })

\* C5 witness: a session with one participant complete and one who has
\* answered but is not complete
C5_Witness ==
    \E sid \in Sids :
        LET status == check_preferences_status(participants, sid) IN
        /\ status.total_participants = 2
        /\ status.completed = 1
        /\ \E p \in SessionPids(sid) :
               ~participants[p].complete /\ participants[p].responses > 0

\* C6: at most one plan version of a session is pending the organizer's
\* decision.
C6_AtMostOnePendingVersion ==
    \A sid \in Sids :
        Cardinality({ i \in PlanIds : plans[i].session = sid
                                       /\ plans[i].status = "pending" }) <= 1

\* a session's versions are pairwise distinct and increase in creation order
VersionsIncrease(pls) ==
    \A i, j \in 1..Len(pls) :
        i < j /\ pls[i].session = pls[j].session => pls[i].version < pls[j].version

ResponseStep == last'.op = "process_preference_response"

\* C8: recordResponse for a participant who is complete or awaiting the
\* continuation decision fails with StateError, appends no response and
\* sends nothing.
C8_ResponseRefusedOutsideCollecting ==
    [][ResponseStep /\ (participants[last'.pid].complete
                        \/ participants[last'.pid].awaiting)
         => /\ last'.raised = "StateError"
            /\ participants'[last'.pid].responses = participants[last'.pid].responses
            /\ last'.sent = <<>>]_vars

\* the deliveries of an invocation that went to participant p with `kind`
Deliveries(inv, p, kind) ==
    { i \in 1..Len(inv.sent) : inv.sent[i].to = p /\ inv.sent[i].kind = kind }

\* C9: a response of a collecting participant that brings the count to the
\* threshold leaves the participant awaiting continuation with a
\* continuation prompt sent and no question; one that leaves the count
\* below the threshold leaves the participant collecting with the next
\* canonical question sent.
C9_ThresholdPromptsContinuation ==
    [][ResponseStep /\ ~participants[last'.pid].complete
                    /\ ~participants[last'.pid].awaiting
         => LET p == last'.pid IN
            /\ participants'[p].responses = continuation_threshold
                 => /\ participants'[p].awaiting
                    /\ Cardinality(Deliveries(last', p, "continue")) = 1
                    /\ Deliveries(last', p, "question") = {}
            /\ participants'[p].responses < continuation_threshold
                 => /\ ~participants'[p].awaiting /\ ~participants'[p].complete
                    /\ Cardinality(Deliveries(last', p, "question")) = 1]_vars

\* C10: a continuation decision of a participant whose responses have
\* reached the threshold puts the participant back to collecting when the
\* trimmed, lower-cased answer is yes, y, sure, ok, okay or continue, and
\* for any other answer marks the participant complete and sends exactly
\* one thank-you and no question.
C10_ContinuationDecision ==
    [][(/\ last'.op = "process_continuation_response"
        /\ participants[last'.pid].responses >= continuation_threshold
        /\ ~participants[last'.pid].complete)
         => LET p == last'.pid IN
            IF Normalize(last'.arg) \in AffirmativeResponses
            THEN ~participants'[p].complete /\ ~participants'[p].awaiting
            ELSE /\ participants'[p].complete
                 /\ Cardinality(Deliveries(last', p, "thanks")) = 1
                 /\ Deliveries(last', p, "question") = {}]_vars

\* the step just taken handled a continuation answer of participant last'.pid
ContinuationStep == last'.op = "process_continuation_response"

\* C11: a continuation decision for a participant who is not awaiting
\* continuation leaves the participant's completion flag and awaiting flag
\* as they were and sends neither a question nor a thank-you.
C11_ContinuationRefusedUnlessAwaiting ==
    [][ContinuationStep /\ ~participants[last'.pid].awaiting
         => LET p == last'.pid IN
            /\ participants'[p].complete = participants[p].complete
            /\ participants'[p].awaiting = participants[p].awaiting
            /\ Deliveries(last', p, "question") = {}
            /\ Deliveries(last', p, "thanks") = {}]_vars

\* the step just taken is POST /preferences/complete for last'.pid
CompleteStep == last'.op = "complete_preferences"

\* C12: markComplete leaves the participant complete; it sends exactly one
\* thank-you when the participant was not complete before and none, changing
\* nothing, when it was.
C12_MarkCompleteIsIdempotent ==
    [][CompleteStep
         => LET p == last'.pid IN
            /\ participants'[p].complete
            /\ IF participants[p].complete
               THEN participants' = participants
                    /\ Deliveries(last', p, "thanks") = {}
               ELSE Cardinality(Deliveries(last', p, "thanks")) = 1]_vars

\* a participant past NOT_CONTACTED: a method is stored, a response is
\* recorded or the collection is complete
PastNotContacted(p) ==
    \/ participants[p].method # NoneVal
    \/ participants[p].responses > 0
    \/ participants[p].complete

\* C13: an outreach call sends no introduction to a participant who is
\* already past NOT_CONTACTED, and changes no participant row.
C13_OutreachIsIdempotent ==
    [][last'.op = "start_outreach"
         => /\ participants' = participants
            /\ \A p \in SessionPids(last'.sid) :
                 PastNotContacted(p) => Deliveries(last', p, "intro") = {}]_vars

\* the step just taken filed the feedback of participant last'.pid under
\* plan version last'.plan (0: the session had no approved version)
FeedbackStep == last'.op = "record_participant_feedback"

\* the feedback row the last invocation submitted
SubmittedRow(inv) ==
    [participant |-> inv.pid, plan |-> inv.plan, accepted |-> inv.approved,
     feedback |-> inv.arg[1]]

\* the number of feedback rows of a (participant, plan version) pair
PairCount(fbs, pid, plan) ==
    BagCardinality([r \in FeedbackRows(fbs, pid, plan) |-> fbs[r]])

HasDistributedPlan(sid) ==
    \E i \in PlanIds : /\ plans[i].session = sid
                       /\ plans[i].status \in {"approved", "distributed"}

\* C15: feedback for a session that has no distributed plan version fails
\* and files no feedback row.
C15_FeedbackRefusedWithoutDistributedPlan ==
    [][FeedbackStep /\ ~HasDistributedPlan(last'.sid)
         => /\ last'.raised # NoneVal
            /\ feedbacks' = feedbacks]_vars

\* C16: a feedback submission leaves every plan version as it was and adds
\* none.
C16_FeedbackLeavesPlansAlone ==
    [][FeedbackStep => plans' = plans]_vars

\* C16 witness: a rejection with feedback text just filed under the
\* session's approved version, which is still approved and still the last
C16_Witness ==
    /\ last.op = "record_participant_feedback"
    /\ ~last.approved
    /\ Truthy(last.arg[1])
    /\ last.plan = Len(plans)
    /\ last.plan # 0
    /\ plans[last.plan].status = "approved"
    /\ PairCount(feedbacks, last.pid, last.plan) = 1

\* the rejection notices of an invocation
RejectionNotices(inv) ==
    { i \in 1..Len(inv.sent) : inv.sent[i].kind = "rejection" }

\* C17: a feedback submission files its row; with accepted = false and a
\* non-empty text it sends the organizer exactly one rejection notice,
\* naming the participant and carrying the text; otherwise it sends the
\* organizer nothing.
C17_RejectionWithFeedbackNotifiesOrganizer ==
    [][FeedbackStep
         => /\ CopiesIn(SubmittedRow(last'), feedbacks') = 1
            /\ IF ~last'.approved /\ Truthy(last'.arg[1])
               THEN /\ Cardinality(RejectionNotices(last')) = 1
                    /\ \A i \in RejectionNotices(last') :
                         /\ last'.sent[i].to = 0
                         /\ last'.sent[i].participant = last'.pid
                         /\ last'.sent[i].feedback = last'.arg[1].text
               ELSE last'.sent = <<>>]_vars

\* the step just taken is a revision of plan version last'.plan
ReviseStep == last'.op = "revise_plan"

\* C18: a revision called with a feedback text adds one plan version to the
\* session of the revised plan, numbered above the revised one and pending
\* the organizer's decision, and its revision reason refers to the feedback
\* and names the participant when one is given.
C18_ReviseAddsPendingVersion ==
    [][ReviseStep /\ last'.arg[1].some
         => /\ Len(plans') = Len(plans) + 1
            /\ SubSeq(plans', 1, Len(plans)) = plans
            /\ plans'[Len(plans')].session = plans[last'.plan].session
            /\ plans'[Len(plans')].version > plans[last'.plan].version
            /\ plans'[Len(plans')].status = "pending"
            /\ last'.returned.revision_reason.from = last'.pid]_vars

\* the step just taken is a generate or a revise whose plan could not be
\* built: the date of the generate has no next Saturday in its month, the
\* revise was called without a feedback text
OracleFailed ==
    \/ /\ last'.op = "generate_plan"
       /\ create_plan(participants, last'.sid, last'.arg[1]) # NoneVal
    \/ /\ last'.op = "revise_plan"
       /\ ~last'.arg[1].some

\* C19: a generate or revise whose plan could not be built ends with an
\* error, stores no plan version and leaves every plan version, participant
\* row and feedback row as it was.
C19_OracleFailureChangesNothing ==
    [][OracleFailed
         => /\ last'.raised # NoneVal
            /\ last'.sent = <<>>
            /\ plans' = plans
            /\ participants' = participants
            /\ feedbacks' = feedbacks]_vars

\* C19 witness: a generate that just failed on a session that has
\* participants and an earlier plan version
C19_Witness ==
    /\ last.op = "generate_plan"
    /\ last.raised = "ValueError"
    /\ create_plan(participants, last.sid, last.arg[1]) # NoneVal
    /\ SessionPids(last.sid) # {}
    /\ \E i \in PlanIds : plans[i].session = last.sid

\* the transitions that notify: a response, a continuation decision, an
\* organizer decision
NotifyingStep ==
    last'.op \in { "process_preference_response",
                   "process_continuation_response",
                   "record_organizer_decision" }

\* C20: a transition that notifies commits its state change and returns
\* normally whatever becomes of the notification: the response is recorded,
\* the declining participant is complete, the decided plan has the decided
\* status, and no exception of the send reaches the caller.
C20_NotifierFailureIsNotFatal ==
    [][NotifyingStep
         => /\ last'.raised = NoneVal
            /\ last'.op = "process_preference_response"
                 => participants'[last'.pid].responses
                      = participants[last'.pid].responses + 1
            /\ (last'.op = "process_continuation_response"
                /\ Normalize(last'.arg) \notin AffirmativeResponses)
                 => participants'[last'.pid].complete
            /\ last'.op = "record_organizer_decision"
                 => plans'[last'.plan].status
                      = IF last'.approved THEN "approved" ELSE "rejected"]_vars

\* the channel the contact string stands for: email when it contains "@",
\* sms otherwise
InferredChannel(contact) == IF HasAt(contact) THEN "email" ELSE "sms"

\* C21: an approval of a plan of a session whose participants have no
\* preferred method stored ends without an error, and each of them gets
\* exactly one plan delivery, over the channel inferred from the contact
\* string.
C21_UnsetMethodFallsBackAndContinues ==
    [][(/\ DecisionStep /\ last'.approved
        /\ plans[last'.plan].session = last'.sid
        /\ \A p \in SessionPids(last'.sid) : participants[p].method = NoneVal)
         => /\ last'.raised = NoneVal
            /\ \A p \in SessionPids(last'.sid) :
                 /\ Cardinality(PlanDeliveries(last', p)) = 1
                 /\ \A i \in PlanDeliveries(last', p) :
                      last'.sent[i].channel
                        = InferredChannel(participants[p].contact)]_vars

\* the step just taken is a POST /sessions for the participants last'.arg[1],
\* the store failing at insert last'.arg[2] (0: at none)
RegistryStep == last'.op = "create_session"

\* a participant list createSession must refuse: empty, or with an empty
\* contact string
InvalidParticipants(contacts) ==
    contacts = <<>> \/ \E i \in 1..Len(contacts) : contacts[i] = <<>>

\* C22: createSession for an empty participant list, or a list with an
\* empty contact string, fails with ValidationError and stores neither a
\* session nor a participant.
C22_InvalidCreateIsRefused ==
    [][RegistryStep /\ InvalidParticipants(last'.arg[1])
         => /\ last'.raised = "ValidationError"
            /\ sessions' = sessions
            /\ participants' = participants]_vars

\* C23: a createSession whose participant insert fails leaves no session
\* and no participant behind, and every session shown has all the
\* participants it was created for.
C23_CreateIsAllOrNothing ==
    [][RegistryStep
         => /\ last'.raised # NoneVal
                 => sessions' = sessions /\ participants' = participants
            /\ Len(sessions') > Len(sessions)
                 => Len(get_participants(participants', last'.sid))
                      = Len(last'.arg[1])]_vars

\* C24: of two decision requests for one pending plan version only the one
\* handled first takes effect: the request handled second, finding the
\* version decided, leaves the plan row as the first left it and sends
\* nothing.  (The endpoint is a coroutine that calls the planner without
\* awaiting, so the event loop handles the two requests one after the
\* other, in either order.)
C24_SecondDecisionTakesNoEffect ==
    [][DecisionStep /\ plans[last'.plan].status \in {"approved", "rejected"}
         => /\ plans'[last'.plan] = plans[last'.plan]
            /\ last'.sent = <<>>]_vars

\* the plan versions of a session
SessionPlans(sid) == { i \in PlanIds : plans[i].session = sid }

\* the versions of a session are numbered 1, 2, ... without gap or repeat
VersionsConsecutive(sid) ==
    /\ Cardinality(Versions(plans, sid)) = Cardinality(SessionPlans(sid))
    /\ Versions(plans, sid) = 1..Cardinality(SessionPlans(sid))

\* C25: once the background tasks of the generate requests of a session
\* have all run, however they were interleaved, the versions they stored are
\* numbered distinctly and consecutively and at most one version of the
\* session is pending the organizer's decision.
C25_ConcurrentGeneratesSerialize ==
    tasks = EmptyBag
      => \A sid \in Sids :
           /\ VersionsConsecutive(sid)
           /\ Cardinality({ i \in SessionPlans(sid) :
                              plans[i].status = "pending" }) <= 1

\* the step just taken is POST /preferences/comm-method of participant
\* last'.pid with the answer last'.arg
SetMethodStep == last'.op = "set_communication_preference"

\* the mapping of setPreferredMethod: the channel of a trimmed, lower-cased
\* answer, "none" when the answer is no key of the mapping
MethodMapping(r) ==
    IF r \in { <<"1">>, <<"t","e","x","t">>, <<"s","m","s">>, <<"t","x","t">> }
    THEN "sms"
    ELSE IF r \in { <<"2">>, <<"e","m","a","i","l">>, <<"e","-","m","a","i","l">>,
                    <<"m","a","i","l">> }
    THEN "email"
    ELSE IF r \in { <<"3">>, <<"p","h","o","n","e">>, <<"c","a","l","l">>,
                    <<"v","o","i","c","e">> }
    THEN "voice"
    ELSE "none"

C27_UnrecognisedAnswerFallsBack ==
    [][SetMethodStep /\ MethodMapping(Normalize(last'.arg)) = "none"
         => /\ last'.raised = NoneVal
            /\ participants'[last'.pid].method
                 = InferredChannel(participants[last'.pid].contact)]_vars

\* the participant is in AWAITING_METHOD or before: nothing stored yet
AwaitingMethod(row) ==
    row.method = NoneVal /\ row.responses = 0 /\ ~row.awaiting /\ ~row.complete

\* C28: setPreferredMethod for a participant still awaiting the method
\* leaves it collecting, with the method stored; for a participant in a
\* later state it changes the stored method and nothing else of the
\* participant: not the flags, not the responses, not the questions stored.
C28_LaterMethodChangeTouchesOnlyMethod ==
    [][SetMethodStep
         => LET before == participants[last'.pid]
                after == participants'[last'.pid]
            IN  IF AwaitingMethod(before)
                THEN /\ after.method # NoneVal
                     /\ ~after.awaiting /\ ~after.complete
                     /\ after.responses = 0
                ELSE after = [before EXCEPT !.method = after.method]]_vars

\* the answer recorded by the step left the participant below the
\* continuation threshold, or the continuation answer was a yes, or the
\* method was just stored: the steps after which a question is due
QuestionDue ==
    \/ last'.op = "set_communication_preference"
    \/ /\ last'.op = "process_preference_response"
       /\ participants'[last'.pid].responses < continuation_threshold
    \/ /\ last'.op = "process_continuation_response"
       /\ Normalize(last'.arg) \in AffirmativeResponses

DeclinedOrMarkedComplete(p) ==
    /\ last'.pid = p
    /\ \/ /\ last'.op = "process_continuation_response"
          /\ Normalize(last'.arg) \notin AffirmativeResponses
       \/ last'.op = "complete_preferences"

\* C30: a participant who was not complete is complete after a step only
\* when the step is that participant's continuation answer other than a yes,
\* or that participant's markComplete; participants the step adds are not
\* complete.
C30_CompleteOnlyByDeclineOrMarkComplete ==
    [][\A p \in 1..Len(participants') :
         participants'[p].complete /\ (p \in Pids => ~participants[p].complete)
           => p \in Pids /\ DeclinedOrMarkedComplete(p)]_vars

\* C30 witness: a participant has just become complete by answering no to
\* the continuation question after reaching the threshold, while the other
\* participant of the session, who has a method stored and has answered, is
\* not complete
C30_Witness ==
    /\ last.op = "process_continuation_response"
    /\ participants[last.pid].complete
    /\ participants[last.pid].responses >= continuation_threshold
    /\ \E p \in SessionPids(last.sid) :
         /\ ~participants[p].complete
         /\ participants[p].method # NoneVal
         /\ participants[p].responses > 0

\* the number of complete participants of a session
CompletedCount(parts, sid) ==
    Cardinality({ p \in 1..Len(parts) : parts[p].session = sid /\ parts[p].complete })

\* C31: a participant who is complete stays complete, keeps the awaiting
\* flag it has and gets no further response recorded, whatever the step; so
\* the completed count of a session never goes down.
C31_CompleteIsTerminal ==
    [][/\ \A p \in Pids :
            participants[p].complete
              => /\ participants'[p].complete
                 /\ participants'[p].awaiting = participants[p].awaiting
                 /\ participants'[p].responses = participants[p].responses
       /\ \A sid \in Sids :
            CompletedCount(participants', sid) >= CompletedCount(participants, sid)]_vars

C32_ApprovedBelowLatest ==
    \E sid \in Sids :
        LET st == plan_status(plans, sid) IN
        /\ st.has_plan /\ st.plan_approved
        /\ plans[st.plan_details].version = 2
        /\ plans[st.plan_details].status = "rejected"
        /\ \E i \in SessionPlans(sid) :
             plans[i].version = 1 /\ plans[i].status = "approved"

IsPercentOf(q, completed, total) == q.num * total = 100 * completed * q.den

\* C33: the status of a session without participants has percentage 0 and
\* is computed without fault; the status of any other session has
\* percentage 100 * completed / total, completed being the number of its
\* complete participants; and an outreach leaves the status of every
\* session as it was.
C33_PercentageOfCompleted ==
    [][\A sid \in Sids :
         LET st == check_preferences_status(participants', sid)
             n == Cardinality({ p \in 1..Len(participants') :
                                  participants'[p].session = sid })
         IN  /\ st.total_participants = n
             /\ st.completed = CompletedCount(participants', sid)
             /\ IF n = 0
                THEN st.complete_percentage.num = 0
                ELSE IsPercentOf(st.complete_percentage, st.completed, n)
             /\ last'.op = "start_outreach"
                  => st = check_preferences_status(participants, sid)]_vars

\* C33 witness: the outreach of a session of three participants has just
\* sent its three introductions: total 3, completed 0, pending 3,
\* percentage 0, beside a session without participants at percentage 0
C33_Witness ==
    /\ last.op = "start_outreach"
    /\ Len(last.sent) = 3
    /\ LET st == check_preferences_status(participants, last.sid) IN
       /\ st.total_participants = 3
       /\ st.completed = 0
       /\ st.pending = 3
       /\ st.complete_percentage.num = 0
    /\ \E sid \in Sids :
         LET st == check_preferences_status(participants, sid) IN
         st.total_participants = 0 /\ st.complete_percentage.num = 0

\* one of three participants is complete: the percentage is 100 / 3
C33_OneOfThree ==
    \E sid \in Sids :
        LET st == check_preferences_status(participants, sid) IN
        /\ st.total_participants = 3 /\ st.completed = 1
        /\ IsPercentOf(st.complete_percentage, 1, 3)


\* the feedback rows filed by the participants of session sid
SessionFeedback(fb, parts, sid) ==
    {r \in BagToSet(fb) : r.participant \in DOMAIN parts
                          /\ parts[r.participant].session = sid}

\* C34: operations on different sessions are independent: a step invoked for
\* session A leaves every participant, response, plan version and feedback
\* record of every other session B unchanged, also when the participant or
\* plan identifier passed with it belongs to B.
C34_SessionsIndependent ==
    [][\A b \in Sids \ {last'.sid} :
          /\ \A p \in Pids : participants[p].session = b
                             => /\ p \in DOMAIN participants'
                                /\ participants'[p] = participants[p]
          /\ \A i \in PlanIds : plans[i].session = b
                                => /\ i \in DOMAIN plans'
                                   /\ plans'[i] = plans[i]
          /\ \A r \in SessionFeedback(feedbacks, participants, b)
                      \cup SessionFeedback(feedbacks', participants', b) :
                CopiesIn(r, feedbacks') = CopiesIn(r, feedbacks)]_vars

\* a request for one session has named a participant of another session
C34_ForeignParticipant ==
    /\ last.op = "process_preference_response"
    /\ last.pid \in Pids
    /\ participants[last.pid].session # last.sid

\* a decision filed for one session has named a plan of another session
C34_ForeignPlan ==
    /\ last.op = "record_organizer_decision"
    /\ last.plan \in PlanIds
    /\ plans[last.plan].session # last.sid


\* C35: completion is no precondition of generate: with participants of the
\* session still pending, generate_plan warns and goes on, and whenever the
\* plan is built it persists one new version of the session, awaiting the
\* organizer's decision; only a plan that could not be built stops it.
C35_GenerateDespitePending ==
    [][last'.op = "generate_plan"
       => LET sid == last'.sid
              status == check_preferences_status(participants, sid)
          IN  /\ status.pending > 0
                 <=> \E p \in SessionPids(sid) : ~participants[p].complete
              /\ IF create_plan(participants, sid, last'.arg[1]) = NoneVal
                 THEN /\ Len(plans') = Len(plans) + 1
                      /\ SubSeq(plans', 1, Len(plans)) = plans
                      /\ plans'[Len(plans')].session = sid
                      /\ plans'[Len(plans')].status = "pending"
                 ELSE /\ plans' = plans
                      /\ last'.raised = "ValueError"
              /\ participants' = participants]_vars

\* C35 witness: a plan version just persisted for a session of which one
\* participant is complete and another is not
C35_Witness ==
    /\ last.op = "generate_plan"
    /\ last.raised # "ValueError"
    /\ plans # <<>>
    /\ plans[Len(plans)].session = last.sid
    /\ \E p, q \in SessionPids(last.sid) :
          participants[p].complete /\ ~participants[q].complete


\* the proposals an invocation delivered to the organizer
Proposals(inv) ==
    { i \in 1..Len(inv.sent) : inv.sent[i].to = 0 /\ inv.sent[i].kind = "proposal" }

\* C36: after generate persists a new plan version the organizer is notified
\* exactly once, of that version, which is the session's highest-numbered one
\* and pending the organizer's decision.
C36_OrganizerNotifiedOfNewVersion ==
    [][last'.op = "generate_plan" /\ Len(plans') = Len(plans) + 1
         => /\ Cardinality(Proposals(last')) = 1
            /\ get_latest_plan(plans', last'.sid) = Len(plans')
            /\ plans'[Len(plans')].status = "pending"]_vars


\* the reminders an invocation delivered to participant p
Reminders(inv, p) == Deliveries(inv, p, "reminder")

\* C37: a reminder to a participant whose preferred method is unset goes out
\* over the channel of the contact string at that time (email when it
\* contains "@", sms otherwise), and the send stores no method.
C37_ReminderFollowsContact ==
    [][last'.op = "send_reminder" /\ participants[last'.pid].method = NoneVal
         => /\ \A i \in Reminders(last', last'.pid) :
                 last'.sent[i].channel
                   = InferredChannel(participants[last'.pid].contact)
            /\ participants'[last'.pid].method = NoneVal]_vars

\* a reminder has gone by SMS to a participant reached by e-mail who has no
\* method stored
C37_SmsToEmailContact ==
    /\ last.op = "send_reminder"
    /\ participants[last.pid].method = NoneVal
    /\ HasAt(participants[last.pid].contact)
    /\ \E i \in Reminders(last, last.pid) : last.sent[i].channel = "sms"


\* the participant of the step just taken had affirmed continuation, at the
\* threshold, in the step before it
AffirmedAtThreshold ==
    /\ last.op = "process_continuation_response"
    /\ last.pid = last'.pid
    /\ Normalize(last.arg) \in AffirmativeResponses
    /\ participants[last.pid].responses = continuation_threshold
    /\ ~participants[last.pid].complete

\* C38: the response that follows an affirmed continuation at 5 recorded
\* responses keeps the participant collecting and is answered by the next
\* canonical question, stored and sent once, and by no continuation prompt.
C38_PromptOnlyAtThreshold ==
    [][ResponseStep /\ AffirmedAtThreshold
         => LET p == last'.pid IN
            /\ ~participants'[p].complete /\ ~participants'[p].awaiting
            /\ participants'[p].question = participants'[p].responses
            /\ Cardinality(Deliveries(last', p, "question")) = 1
            /\ Deliveries(last', p, "continue") = {}]_vars

\* the sixth response, after an affirmed continuation, has been recorded
\* and no sixth question was stored for it
C38_SixthResponseUnanswered ==
    /\ last.op = "process_preference_response"
    /\ participants[last.pid].responses = continuation_threshold + 1
    /\ participants[last.pid].question = continuation_threshold


\* C39: the feedback a participant submits in answer to an approved version
\* of the session is filed under that version, also when a newer version of
\* the session has been approved in the meantime.
C39_FeedbackFiledUnderAnsweredVersion ==
    [][FeedbackStep /\ Len(last'.arg) = 2
         => /\ last'.plan = last'.arg[2]
            /\ PairCount(feedbacks', last'.pid, last'.arg[2]) = 1]_vars

\* an answer to the earlier of two approved versions has been filed under
\* the later one
C39_FiledUnderNewerVersion ==
    /\ last.op = "record_participant_feedback"
    /\ Len(last.arg) = 2
    /\ last.arg[2] \in PlanIds /\ last.plan \in PlanIds
    /\ plans[last.arg[2]].status = "approved"
    /\ plans[last.arg[2]].version < plans[last.plan].version
    /\ PairCount(feedbacks, last.pid, last.plan) = 1
    /\ PairCount(feedbacks, last.pid, last.arg[2]) = 0
=============================================================================
